---- MODULE Spec2Model ----
(***************************************************************************)
(* Model of src/src/main.rs: the splitting of a DhtArc into at most two    *)
(* linear ranges (From<DhtArc> for SplitArc), the p2p_store table with its *)
(* insert-or-replace by key, and the two counting queries evaluated on the *)
(* stored ranges.                                                          *)
(***************************************************************************)
EXTENDS Integers, Sequences, FiniteSets, TLC

(* The address space is u32 in the program.  The code only compares        *)
(* locations and names u32::MIN and u32::MAX, so the space is modelled at  *)
(* Width bits and enumerated in full.                                      *)
Width == 2

U32_MIN == 0

U32_MAX == 2^Width - 1

Locs == U32_MIN..U32_MAX

(* Option<u32>: None is the empty sequence, Some(x) the one-element one;   *)
(* a NULL column of the table is None.                                     *)
None == <<>>

Some(x) == <<x>>

IsSome(o) == o # None

Unwrap(o) == o[1]

(* std::ops::Bound<u32> *)
Included(x) == <<"Included", x>>

Excluded(x) == <<"Excluded", x>>

Unbounded == <<"Unbounded">>

BoundKind(b) == b[1]

BoundValue(b) == b[2]

(* --- the Arc Source (dht_arc, an external collaborator) ----------------- *)
(* A DhtArc carries center_loc and half_length; range() yields its bound   *)
(* pair.  The pair is kept with the arc, as the value range() returns.     *)
DhtArc(c, h, s, e) == [center_loc |-> c, half_length |-> h, start_bound |-> s, end_bound |-> e]

(* zero length: both bounds excluded at the center *)
EmptyArcs == {DhtArc(c, 0, Excluded(c), Excluded(c)) : c \in Locs}

(* the arc from s to e going upwards, wrapping when s > e *)
ArcOf(s, e) ==
    LET len == ((e - s) % (U32_MAX + 1)) + 1
    IN  DhtArc((s + (len \div 2)) % (U32_MAX + 1), ((len - 1) \div 2) + 1, Included(s), Included(e))

NonEmptyArcs == {ArcOf(s, e) : s \in Locs, e \in Locs}

(* what the Arc Source yields: one of the three legal shapes *)
DhtArcs == EmptyArcs \cup NonEmptyArcs

(* bound pairs outside the three shapes *)
EdgeLocs == {U32_MIN, U32_MAX}

IllegalArcs ==
    {DhtArc(s, 1, Included(s), Excluded(e)) : s \in EdgeLocs, e \in EdgeLocs}
    \cup {DhtArc(s, 1, Excluded(s), Included(e)) : s \in EdgeLocs, e \in EdgeLocs}
    \cup {DhtArc(s, 1, Included(s), Unbounded) : s \in EdgeLocs}
    \cup {DhtArc(e, 1, Unbounded, Included(e)) : e \in EdgeLocs}
    \cup {DhtArc(s, 1, Excluded(s), Unbounded) : s \in EdgeLocs}
    \cup {DhtArc(e, 1, Unbounded, Excluded(e)) : e \in EdgeLocs}
    \cup {DhtArc(U32_MIN, 1, Unbounded, Unbounded)}

AnyArcs == DhtArcs \cup IllegalArcs

range(f) == <<f.start_bound, f.end_bound>>

(* --- SplitArc ----------------------------------------------------------- *)
SplitArc(s1, e1, s2, e2) == [start_1 |-> s1, end_1 |-> e1, start_2 |-> s2, end_2 |-> e2]

(* the value of a call that hit unreachable!(): no SplitArc is returned *)
Panic == [panic |-> "unreachable"]

(* the split with one arm of the match replaced; the other arms are as in  *)
(* the source                                                              *)
SplitArc_from_With(f, empty, wraps, wrapping, other) ==
    LET r == range(f)
        s == r[1]
        e == r[2]
    IN  CASE BoundKind(s) = "Excluded" /\ BoundKind(e) = "Excluded" ->
               IF empty = "point"
               THEN SplitArc(Some(BoundValue(s)), Some(BoundValue(e)), None, None)
               ELSE SplitArc(None, None, None, None)
          [] BoundKind(s) = "Included" /\ BoundKind(e) = "Included" ->
               IF (IF wraps = "ge" THEN BoundValue(s) >= BoundValue(e) ELSE BoundValue(s) > BoundValue(e))
               THEN IF wrapping = "swapped"
                    THEN SplitArc(Some(BoundValue(s)), Some(U32_MAX), Some(U32_MIN), Some(BoundValue(e)))
                    ELSE SplitArc(Some(U32_MIN), Some(BoundValue(e)), Some(BoundValue(s)), Some(U32_MAX))
               ELSE SplitArc(Some(BoundValue(s)), Some(BoundValue(e)), None, None)
          [] OTHER -> IF other = "coerce" THEN SplitArc(None, None, None, None) ELSE Panic

(* s >= e taken for wrapping *)
SplitArc_from_WrapOnEqual(f) == SplitArc_from_With(f, "unset", "ge", "low_high", "panic")

(* the high segment stored first *)
SplitArc_from_SwappedPairs(f) == SplitArc_from_With(f, "unset", "gt", "swapped", "panic")

(* the zero length arc stored as the point of its bounds *)
SplitArc_from_ZeroAsPoint(f) == SplitArc_from_With(f, "point", "gt", "low_high", "panic")

(* a silent fallback in place of unreachable!() *)
SplitArc_from_Coerce(f) == SplitArc_from_With(f, "unset", "gt", "low_high", "coerce")

SplitArc_from(f) ==
    LET r == range(f)
        s == r[1]
        e == r[2]
    IN  CASE BoundKind(s) = "Excluded" /\ BoundKind(e) = "Excluded" ->
               SplitArc(None, None, None, None)
          [] BoundKind(s) = "Included" /\ BoundKind(e) = "Included" ->
               IF BoundValue(s) > BoundValue(e)
               THEN SplitArc(Some(U32_MIN), Some(BoundValue(e)), Some(BoundValue(s)), Some(U32_MAX))
               ELSE SplitArc(Some(BoundValue(s)), Some(BoundValue(e)), None, None)
          [] OTHER -> Panic

(* --- AgentInfo ---------------------------------------------------------- *)
Keys == {"k1", "k2"}

SignedAtMs == {1}

AgentInfo(k, t, arc) == [key |-> k, signed_at_ms |-> t, storage_arc |-> arc]

AgentInfos(Arcs) == {AgentInfo(k, t, arc) : k \in Keys, t \in SignedAtMs, arc \in Arcs}

(* AgentInfo::new_rand with the arc of a well-behaved Arc Source *)
LegalAgentInfos == AgentInfos(DhtArcs)

AnyAgentInfos == AgentInfos(AnyArcs)

(* rmp_serde::to_vec_named: the named fields of the AgentInfo, in order *)
to_vec_named(agent_info) ==
    << <<"key", agent_info.key>>,
       <<"signed_at_ms", agent_info.signed_at_ms>>,
       <<"storage_arc", <<"center_loc", agent_info.storage_arc.center_loc>>,
                        <<"half_length", agent_info.storage_arc.half_length>> >> >>

(* --- the p2p_store table ------------------------------------------------ *)
(* the row an insert binds to ?1..?9 *)
Row(agent_info, split_arc) ==
    [key |-> agent_info.key,
     blob |-> to_vec_named(agent_info),
     signed_at_ms |-> agent_info.signed_at_ms,
     center_loc |-> agent_info.storage_arc.center_loc,
     half_length |-> agent_info.storage_arc.half_length,
     arc_start1 |-> split_arc.start_1,
     arc_end1 |-> split_arc.end_1,
     arc_start2 |-> split_arc.start_2,
     arc_end2 |-> split_arc.end_2]

(* INSERT INTO p2p_store with key BLOB PRIMARY KEY ON CONFLICT REPLACE:    *)
(* the rows holding the key are deleted and the new row is added.          *)
(* ON CONFLICT IGNORE in place of REPLACE *)
SqlInsert_Ignore(table, row) ==
    IF \E r \in table : r.key = row.key THEN table ELSE table \cup {row}

(* an update on conflict that leaves the second range of the old row *)
SqlInsert_PartialUpdate(table, row) ==
    {r \in table : r.key # row.key}
    \cup {[row EXCEPT !.arc_start2 = r.arc_start2, !.arc_end2 = r.arc_end2] :
             r \in {x \in table : x.key = row.key}}
    \cup (IF \E r \in table : r.key = row.key THEN {} ELSE {row})

SqlInsert(table, row) == {r \in table : r.key # row.key} \cup {row}

(* the PRIMARY KEY conflict: a row with this key is already there *)
HasKey(table, key) == \E r \in table : r.key = key

(* the upper bounds taken exclusive *)
CoveringWhere_Exclusive(r, loc) ==
    \/ /\ IsSome(r.arc_start1)
       /\ IsSome(r.arc_end1)
       /\ loc >= Unwrap(r.arc_start1)
       /\ loc < Unwrap(r.arc_end1)
    \/ /\ IsSome(r.arc_start2)
       /\ IsSome(r.arc_end2)
       /\ loc >= Unwrap(r.arc_start2)
       /\ loc < Unwrap(r.arc_end2)

(* WHERE clause of count_agents_covering_loc, ?1 = loc *)
CoveringWhere(r, loc) ==
    \/ /\ IsSome(r.arc_start1)
       /\ IsSome(r.arc_end1)
       /\ loc >= Unwrap(r.arc_start1)
       /\ loc <= Unwrap(r.arc_end1)
    \/ /\ IsSome(r.arc_start2)
       /\ IsSome(r.arc_end2)
       /\ loc >= Unwrap(r.arc_start2)
       /\ loc <= Unwrap(r.arc_end2)

(* the first test without its second comparison *)
OverlapingWhere_HalfTest(r, q) ==
    \/ /\ IsSome(q.start_1)
       /\ IsSome(q.end_1)
       /\ IsSome(r.arc_start1)
       /\ IsSome(r.arc_end1)
       /\ Unwrap(q.start_1) <= Unwrap(r.arc_end1)
    \/ /\ IsSome(q.start_2)
       /\ IsSome(q.end_2)
       /\ IsSome(r.arc_start2)
       /\ IsSome(r.arc_end2)
       /\ Unwrap(q.start_2) <= Unwrap(r.arc_end2)
       /\ Unwrap(q.end_2) >= Unwrap(r.arc_start2)

(* WHERE clause of count_agents_overlaping_arc, ?1..?4 = the query's split *)
OverlapingWhere(r, q) ==
    \/ /\ IsSome(q.start_1)
       /\ IsSome(q.end_1)
       /\ IsSome(r.arc_start1)
       /\ IsSome(r.arc_end1)
       /\ Unwrap(q.start_1) <= Unwrap(r.arc_end1)
       /\ Unwrap(q.end_1) >= Unwrap(r.arc_start1)
    \/ /\ IsSome(q.start_2)
       /\ IsSome(q.end_2)
       /\ IsSome(r.arc_start2)
       /\ IsSome(r.arc_end2)
       /\ Unwrap(q.start_2) <= Unwrap(r.arc_end2)
       /\ Unwrap(q.end_2) >= Unwrap(r.arc_start2)

(* SELECT COUNT(key): the keys of the selected rows, and their number *)
SelectKeys(table, loc) == {r.key : r \in {x \in table : CoveringWhere(x, loc)}}

SelectKeysOverlaping(table, q) == {r.key : r \in {x \in table : OverlapingWhere(x, q)}}

CountKey(table, loc) == Cardinality({x \in table : CoveringWhere(x, loc)})

CountKeyOverlaping(table, q) == Cardinality({x \in table : OverlapingWhere(x, q)})

(* --- state -------------------------------------------------------------- *)
NoInfo == [key |-> "none"]

VARIABLES
    p2p_store,   \* the rows of the table
    call,        \* the call main made last: [op, ...arguments]
    split_arc,   \* the SplitArc the last call derived, None when it derived none
    result,      \* the count a query returned and main has not printed yet
    selected,    \* the keys of the rows the last query counted
    panicked,    \* the process died in unreachable!()
    latest       \* per key, the AgentInfo of the most recent insert (history)

vars == <<p2p_store, call, split_arc, result, selected, panicked, latest>>

Idle == [op |-> "main"]

(* main: the connection is opened and the empty table created *)
Init ==
    /\ p2p_store = {}
    /\ call = Idle
    /\ split_arc = None
    /\ result = None
    /\ selected = {}
    /\ panicked = FALSE
    /\ latest = [k \in Keys |-> NoInfo]

(* main makes its next call once the last one has returned *)
Running == ~panicked /\ call = Idle

(* insert(con, agent_info) *)
insert(agent_info) ==
    /\ Running
    /\ LET sa == SplitArc_from(agent_info.storage_arc)
       IN  IF sa = Panic
           THEN /\ call' = [op |-> "insert", agent_info |-> agent_info, conflict |-> FALSE]
                /\ panicked' = TRUE
                /\ split_arc' = None
                /\ UNCHANGED <<p2p_store, latest>>
           ELSE /\ call' = [op |-> "insert", agent_info |-> agent_info,
                             conflict |-> HasKey(p2p_store, agent_info.key)]
                /\ split_arc' = Some(sa)
                /\ p2p_store' = SqlInsert(p2p_store, Row(agent_info, sa))
                /\ latest' = [latest EXCEPT ![agent_info.key] = agent_info]
                /\ UNCHANGED panicked
    /\ UNCHANGED <<result, selected>>

(* count_agents_covering_loc(con, loc) *)
count_agents_covering_loc(loc) ==
    /\ Running
    /\ call' = [op |-> "covering", loc |-> loc]
    /\ split_arc' = None
    /\ result' = Some(CountKey(p2p_store, loc))
    /\ selected' = SelectKeys(p2p_store, loc)
    /\ UNCHANGED <<p2p_store, panicked, latest>>

(* count_agents_overlaping_arc(con, arc) *)
count_agents_overlaping_arc(arc) ==
    /\ Running
    /\ call' = [op |-> "overlaping", arc |-> arc]
    /\ LET sa == SplitArc_from(arc)
       IN  IF sa = Panic
           THEN /\ panicked' = TRUE
                /\ split_arc' = None
                /\ UNCHANGED <<result, selected>>
           ELSE /\ split_arc' = Some(sa)
                /\ result' = Some(CountKeyOverlaping(p2p_store, sa))
                /\ selected' = SelectKeysOverlaping(p2p_store, sa)
                /\ UNCHANGED panicked
    /\ UNCHANGED <<p2p_store, latest>>

(* the call returned Ok: its locals are dropped, main prints the count of *)
(* a query (println!) and goes on                                        *)
returns ==
    /\ ~panicked
    /\ call # Idle
    /\ call' = Idle
    /\ split_arc' = None
    /\ result' = None
    /\ selected' = {}
    /\ UNCHANGED <<p2p_store, panicked, latest>>

Insert == \E agent_info \in LegalAgentInfos : insert(agent_info)

CountCovering == \E loc \in Locs : count_agents_covering_loc(loc)

CountOverlaping == \E arc \in DhtArcs : count_agents_overlaping_arc(arc)

Next == Insert \/ CountCovering \/ CountOverlaping \/ returns

Spec == Init /\ [][Next]_vars

(* the same program fed by an Arc Source that breaks its contract *)
InsertAny == \E agent_info \in AnyAgentInfos : insert(agent_info)

CountOverlapingAny == \E arc \in AnyArcs : count_agents_overlaping_arc(arc)

NextAny == InsertAny \/ CountCovering \/ CountOverlapingAny \/ returns

SpecAny == Init /\ [][NextAny]_vars

(* ======================================================================= *)
(* Properties                                                              *)
(* ======================================================================= *)

(* --- vocabulary of the properties ---------------------------------------- *)
IsEmptyShape(f) == BoundKind(f.start_bound) = "Excluded" /\ BoundKind(f.end_bound) = "Excluded"

IsInclusive(f) == BoundKind(f.start_bound) = "Included" /\ BoundKind(f.end_bound) = "Included"

IsLinear(f) == IsInclusive(f) /\ BoundValue(f.start_bound) <= BoundValue(f.end_bound)

IsWrapping(f) == IsInclusive(f) /\ BoundValue(f.start_bound) > BoundValue(f.end_bound)

IsLegalShape(f) == IsEmptyShape(f) \/ IsInclusive(f)

(* the circular interval of f contains the point p *)
Contains(f, p) ==
    \/ IsLinear(f) /\ BoundValue(f.start_bound) <= p /\ p <= BoundValue(f.end_bound)
    \/ IsWrapping(f) /\ (p <= BoundValue(f.end_bound) \/ p >= BoundValue(f.start_bound))

(* two inclusive ranges, each present or absent, intersect *)
Intersects(a1, b1, a2, b2) ==
    /\ IsSome(a1) /\ IsSome(b1) /\ IsSome(a2) /\ IsSome(b2)
    /\ Unwrap(a1) <= Unwrap(b2)
    /\ Unwrap(a2) <= Unwrap(b1)

(* any of the four pairwise combinations of row r and query split q intersects *)
AnyPairIntersects(r, q) ==
    \/ Intersects(r.arc_start1, r.arc_end1, q.start_1, q.end_1)
    \/ Intersects(r.arc_start1, r.arc_end1, q.start_2, q.end_2)
    \/ Intersects(r.arc_start2, r.arc_end2, q.start_1, q.end_1)
    \/ Intersects(r.arc_start2, r.arc_end2, q.start_2, q.end_2)

(* the arc the last call split *)
CallArc == IF call.op = "insert" THEN call.agent_info.storage_arc ELSE call.arc

Splitting == call.op \in {"insert", "overlaping"}

Present == {k \in Keys : latest[k] # NoInfo}

(* the legal arcs whose record can have the range columns of row r: the    *)
(* zero-length arc at r's center, the linear arc of r's first pair and the *)
(* wrapping arc from r's second start to r's first end                     *)
ArcsWithColumnsOf(r) ==
    (IF r.center_loc \in Locs
     THEN {DhtArc(r.center_loc, 0, Excluded(r.center_loc), Excluded(r.center_loc))} ELSE {})
    \cup (IF IsSome(r.arc_start1) /\ IsSome(r.arc_end1)
          THEN {ArcOf(Unwrap(r.arc_start1), Unwrap(r.arc_end1))} ELSE {})
    \cup (IF IsSome(r.arc_start2) /\ IsSome(r.arc_end1)
          THEN {ArcOf(Unwrap(r.arc_start2), Unwrap(r.arc_end1))} ELSE {})

(* row r is, column for column, what one insert of a legal AgentInfo writes *)
IsWholeInsert(r) ==
    /\ r.key \in Keys
    /\ r.signed_at_ms \in SignedAtMs
    /\ \E arc \in ArcsWithColumnsOf(r) :
          /\ arc \in DhtArcs
          /\ LET info == AgentInfo(r.key, r.signed_at_ms, arc)
             IN  r = [key |-> info.key,
                      blob |-> to_vec_named(info),
                      signed_at_ms |-> info.signed_at_ms,
                      center_loc |-> arc.center_loc,
                      half_length |-> arc.half_length,
                      arc_start1 |-> SplitArc_from(arc).start_1,
                      arc_end1 |-> SplitArc_from(arc).end_1,
                      arc_start2 |-> SplitArc_from(arc).start_2,
                      arc_end2 |-> SplitArc_from(arc).end_2]

(* --- C1 ------------------------------------------------------------------ *)
(* C1: the overlap query counts a stored record exactly once iff at least   *)
(* one of the four pairwise combinations of its sub-ranges with the query's *)
(* sub-ranges intersects; the count is the number of such records.          *)
C1_OverlapCountsAnyPairwiseIntersection ==
    (call.op = "overlaping" /\ split_arc # None) =>
        /\ result = Some(Cardinality({r \in p2p_store : AnyPairIntersects(r, Unwrap(split_arc))}))
        /\ selected = {r.key : r \in {x \in p2p_store : AnyPairIntersects(x, Unwrap(split_arc))}}

(* --- C2 ------------------------------------------------------------------ *)
(* the result the Range Splitter is specified to give for a legal bound pair *)
SpecifiedSplit(f) ==
    IF IsEmptyShape(f)
    THEN [start_1 |-> None, end_1 |-> None, start_2 |-> None, end_2 |-> None]
    ELSE IF BoundValue(f.start_bound) <= BoundValue(f.end_bound)
    THEN [start_1 |-> Some(BoundValue(f.start_bound)), end_1 |-> Some(BoundValue(f.end_bound)),
          start_2 |-> None, end_2 |-> None]
    ELSE [start_1 |-> Some(0), end_1 |-> Some(BoundValue(f.end_bound)),
          start_2 |-> Some(BoundValue(f.start_bound)), end_2 |-> Some(2^Width - 1)]

(* C2: whenever a call has split a legal arc, the SplitArc it derived is    *)
(* all unset for (Excluded, Excluded), {s, e, unset, unset} for inclusive   *)
(* s <= e, and {0, e, s, u32::MAX} for inclusive s > e.                     *)
C2_SplitterResult ==
    (Splitting /\ IsLegalShape(CallArc)) => split_arc = Some(SpecifiedSplit(CallArc))

(* an arc with s in the top quarter and e in the bottom quarter was split *)
C2_Witness ==
    /\ Splitting
    /\ IsWrapping(CallArc)
    /\ BoundValue(CallArc.start_bound) = 3 * 2^(Width - 2)
    /\ BoundValue(CallArc.end_bound) = 2^(Width - 2) - 1
    /\ split_arc = Some([start_1 |-> Some(0), end_1 |-> Some(2^(Width - 2) - 1),
                         start_2 |-> Some(3 * 2^(Width - 2)), end_2 |-> Some(U32_MAX)])

(* --- C3 ------------------------------------------------------------------ *)
(* C3: the coverage query for point P returns the number of stored records  *)
(* whose original circular interval contains P, each counted once.          *)
C3_CoverageCountsContainingArcs ==
    call.op = "covering" =>
        /\ selected = {k \in Present : Contains(latest[k].storage_arc, call.loc)}
        /\ result = Some(Cardinality(selected))
        /\ Cardinality(p2p_store) = Cardinality(Present)

(* a point in the gap of a stored wrapping arc and on the end of a stored   *)
(* linear arc: one of the two records is counted                            *)
C3_Witness ==
    /\ call.op = "covering"
    /\ \E k \in Present :
          /\ IsWrapping(latest[k].storage_arc)
          /\ call.loc > BoundValue(latest[k].storage_arc.end_bound)
          /\ call.loc < BoundValue(latest[k].storage_arc.start_bound)
    /\ \E k \in Present :
          /\ IsLinear(latest[k].storage_arc)
          /\ call.loc = BoundValue(latest[k].storage_arc.end_bound)
          /\ call.loc > BoundValue(latest[k].storage_arc.start_bound)
    /\ result = Some(1)

(* --- C4 ------------------------------------------------------------------ *)
(* C4: with the store holding only the record of R, the overlap query for Q *)
(* reports a match iff the overlap query for R's arc reports one over a     *)
(* store holding only Q as a record.                                        *)
C4_OverlapSymmetric ==
    (call.op = "overlaping" /\ split_arc # None /\ Cardinality(p2p_store) = 1) =>
        \A r \in p2p_store :
            LET R == latest[r.key]
                Q == AgentInfo(r.key, R.signed_at_ms, call.arc)
            IN  (result = Some(1)) <=>
                    (CountKeyOverlaping({Row(Q, SplitArc_from(Q.storage_arc))},
                                        SplitArc_from(R.storage_arc)) = 1)

(* a linear query arc matched a single stored wrapping arc *)
C4_Witness ==
    /\ call.op = "overlaping"
    /\ Cardinality(p2p_store) = 1
    /\ IsLinear(call.arc)
    /\ \E k \in Present : IsWrapping(latest[k].storage_arc)
    /\ result = Some(1)

(* --- C5 ------------------------------------------------------------------ *)
(* C5: a record of a zero-length arc is counted by no query, and an overlap *)
(* query with a zero-length arc returns 0.                                  *)
C5_ZeroLengthNeverMatches ==
    /\ (call.op \in {"covering", "overlaping"} /\ result # None) =>
          /\ \A k \in selected : ~IsEmptyShape(latest[k].storage_arc)
          /\ Unwrap(result) <= Cardinality({k \in Present : ~IsEmptyShape(latest[k].storage_arc)})
    /\ (call.op = "overlaping" /\ IsEmptyShape(call.arc)) => (result = Some(0) /\ selected = {})

(* a query over a zero-length record and another record counted only the other *)
C5_Witness ==
    /\ call.op \in {"covering", "overlaping"}
    /\ \E k \in Present : IsEmptyShape(latest[k].storage_arc)
    /\ \E k \in Present : ~IsEmptyShape(latest[k].storage_arc)
    /\ result = Some(1)

(* --- C6 ------------------------------------------------------------------ *)
(* C6: the store holds at most one record per key, and the record of a key  *)
(* is exactly the one the most recent insert with that key wrote.           *)
C6_InsertReplacesByKey ==
    \A k \in Keys :
        LET rows == {r \in p2p_store : r.key = k}
        IN  IF latest[k] = NoInfo
            THEN rows = {}
            ELSE rows = {[key |-> k,
                          blob |-> to_vec_named(latest[k]),
                          signed_at_ms |-> latest[k].signed_at_ms,
                          center_loc |-> latest[k].storage_arc.center_loc,
                          half_length |-> latest[k].storage_arc.half_length,
                          arc_start1 |-> SpecifiedSplit(latest[k].storage_arc).start_1,
                          arc_end1 |-> SpecifiedSplit(latest[k].storage_arc).end_1,
                          arc_start2 |-> SpecifiedSplit(latest[k].storage_arc).start_2,
                          arc_end2 |-> SpecifiedSplit(latest[k].storage_arc).end_2]}

(* an insert of a linear arc replaced the record of its key while the other *)
(* key holds a record                                                       *)
C6_Witness ==
    /\ call.op = "insert"
    /\ call.conflict
    /\ IsLinear(call.agent_info.storage_arc)
    /\ Cardinality(p2p_store) = Cardinality(Keys)

(* --- C7 ------------------------------------------------------------------ *)
(* C7: in every stored record each sub-range pair is both set or both       *)
(* unset, a present pair has start <= end, the second pair is present only  *)
(* with the first, and two present pairs are disjoint (end_1 < start_2).    *)
C7_StoredRangesWellFormed ==
    \A r \in p2p_store :
        /\ IsSome(r.arc_start1) <=> IsSome(r.arc_end1)
        /\ IsSome(r.arc_start2) <=> IsSome(r.arc_end2)
        /\ IsSome(r.arc_start1) => Unwrap(r.arc_start1) <= Unwrap(r.arc_end1)
        /\ IsSome(r.arc_start2) => Unwrap(r.arc_start2) <= Unwrap(r.arc_end2)
        /\ IsSome(r.arc_start2) => IsSome(r.arc_start1)
        /\ (IsSome(r.arc_start1) /\ IsSome(r.arc_start2)) => Unwrap(r.arc_end1) < Unwrap(r.arc_start2)

(* an insert stored a record with both pairs present *)
C7_Witness ==
    /\ call.op = "insert"
    /\ \E r \in p2p_store :
          /\ r.key = call.agent_info.key
          /\ IsSome(r.arc_start1)
          /\ IsSome(r.arc_start2)

(* --- C8 ------------------------------------------------------------------ *)
(* C8: every record in the store, and so every record a query reads, is the *)
(* complete record of one single insert; a query selects only such records. *)
C8_RowsAreWholeInserts ==
    /\ \A r \in p2p_store : IsWholeInsert(r)
    /\ selected \subseteq {r.key : r \in p2p_store}

(* a query read a store in which every key holds a record and selected all *)
C8_Witness ==
    /\ call.op \in {"covering", "overlaping"}
    /\ Cardinality(p2p_store) = Cardinality(Keys)
    /\ selected = Keys

(* --- C9 ------------------------------------------------------------------ *)
(* C9: a bound pair outside the legal shapes is fatal: the call derives no  *)
(* SplitArc, returns nothing and writes no record.                          *)
C9_IllegalBoundsAreFatal ==
    /\ (Splitting /\ ~IsLegalShape(CallArc)) =>
          /\ panicked
          /\ split_arc = None
          /\ result = None
          /\ call.op = "insert" => latest[call.agent_info.key] # call.agent_info
    /\ \A k \in Present : IsLegalShape(latest[k].storage_arc)
    /\ \A r \in p2p_store : IsWholeInsert(r)
    /\ Cardinality(p2p_store) = Cardinality(Present)

(* an insert of an (Included, Excluded) arc died with a record in the store *)
C9_Witness ==
    /\ call.op = "insert"
    /\ BoundKind(call.agent_info.storage_arc.start_bound) = "Included"
    /\ BoundKind(call.agent_info.storage_arc.end_bound) = "Excluded"
    /\ panicked
    /\ p2p_store # {}

(* --- C10 ----------------------------------------------------------------- *)
(* C10: the coverage query for P returns the same count as the overlap      *)
(* query for the single-point arc (Included(P), Included(P)).               *)
C10_CoverageEqualsPointOverlap ==
    call.op = "covering" =>
        result = Some(CountKeyOverlaping(p2p_store, SplitArc_from(ArcOf(call.loc, call.loc))))

====
